---- MODULE Spec2Model ----
(***************************************************************************)
(* Handle lifecycle of the V8.NET native proxy: HandleProxy (the handle    *)
(* record), the handle registry of V8EngineProxy (_Handles,                *)
(* _DisposedHandles, _HandleSystemMutex), the weak/strong protocol with    *)
(* the engine collector's revival callback, and engine teardown.           *)
(*                                                                         *)
(* Threads run the exported operations.  An operation whose intermediate   *)
(* states other threads can observe is split at the source lines named in  *)
(* its program counter ("D28" is HandleProxy.cpp line 28).                 *)
(*                                                                         *)
(* V8EngineProxy.cpp is not part of the sources: GetHandleProxy,           *)
(* DisposeHandleProxy, ~V8EngineProxy, IsDisposed, RegisterGCCallback and  *)
(* HandleValue::Dispose are modelled from the specification's words.       *)
(***************************************************************************)
EXTENDS Integers, Sequences, FiniteSets, TLC

\* ------------------------------------------------------------------ bounds

\* Handle records the registry may allocate (_Handles.size() stays below it).
MaxHandles == 2

\* Persistent cells of the engine's global-handle table.
MaxCells == 3

\* Nested ~HandleProxy frames a thread's stack holds before it overflows.
MaxDepth == 2

\* Operations the host and the collector start in one run.
MaxCalls == 8
MaxID == 1
MaxResult == 2
MaxArgs == 2
MaxArrays == 2

\* --------------------------------------------------------- program values

Threads == {"eng", "gc"}

\* The engine thread: the only one that acquires handles and tears down.
EngineThread == "eng"
CollectorThread == "gc"

HandleIds == 0 .. (MaxHandles - 1)
CellIds == 1 .. MaxCells

\* An empty Persistent<Value> (IsEmpty()).
EmptyRef == 0

NoHandle == -1

\* JSValueType (ProxyTypes.h 106-127).
JSV_ExecutionError == -3
JSV_CompilerError == -2
JSV_InternalError == -1
JSV_Undefined == 0
JSV_Bool == 2
JSV_BoolObject == 3
JSV_Int32 == 4
JSV_Number == 5
JSV_NumberObject == 6
JSV_String == 7
JSV_StringObject == 8
JSV_Object == 9
JSV_Function == 10
JSV_Date == 11
JSV_Array == 12
JSV_RegExp == 13

\* Engine values the host and the script exchange: an object created from a
\* host template (two internal fields, field 1 tagged with host id 0) and the
\* integer 3.
Values == {"obj", "int"}

Sort(v) == IF v = "obj" THEN "object" ELSE "int32"

\* The integer payload of a value (Int32Value / NumberValue).
NumberOf(v) == IF v = "int" THEN 3 ELSE 0

\* v8::Value predicates, as SetHandle asks them.
IsBoolean(v) == Sort(v) = "boolean"
IsBooleanObject(v) == Sort(v) = "booleanobject"
IsInt32(v) == Sort(v) = "int32"
IsNumber(v) == Sort(v) \in {"int32", "number"}
IsNumberObject(v) == Sort(v) = "numberobject"
IsString(v) == Sort(v) = "string"
IsStringObject(v) == Sort(v) = "stringobject"
IsDate(v) == Sort(v) = "date"
IsArray(v) == Sort(v) = "array"
IsRegExp(v) == Sort(v) = "regexp"
IsNull(v) == Sort(v) = "null"
IsFunction(v) == Sort(v) = "function"
IsExternal(v) == Sort(v) = "external"
IsNativeError(v) == Sort(v) = "nativeerror"
IsUndefined(v) == Sort(v) = "undefined"
IsObject(v) == Sort(v) \in {"object", "function", "array", "date", "regexp",
                            "booleanobject", "numberobject", "stringobject",
                            "nativeerror"}

\* Object layout read by GetManagedObjectID.
InternalFieldCount(v) == IF v = "obj" THEN 2 ELSE 0
\* Internal field 1: whether it is an External, and the host id it holds.
Field1IsExternal(v) == v = "obj"
Field1Value(v) == 0
\* The hidden "ManagedObjectID" value: whether it is there as an Int32, and
\* its number.
HiddenIsInt32(v) == FALSE
HiddenInt32Value(v) == 0

\* A variant of the chain that asks IsNumber before IsInt32.
TypeOfNumberFirst(v) ==
    IF IsBoolean(v) THEN JSV_Bool
    ELSE IF IsBooleanObject(v) THEN JSV_BoolObject
    ELSE IF IsNumber(v) THEN JSV_Number
    ELSE IF IsInt32(v) THEN JSV_Int32
    ELSE IF IsObject(v) THEN JSV_Object
    ELSE JSV_Undefined

\* SetHandle's classification chain (HandleProxy.cpp 81-156).
TypeOf(v) ==
    IF IsBoolean(v) THEN JSV_Bool
    ELSE IF IsBooleanObject(v) THEN JSV_BoolObject
    ELSE IF IsInt32(v) THEN JSV_Int32
    ELSE IF IsNumber(v) THEN JSV_Number
    ELSE IF IsNumberObject(v) THEN JSV_NumberObject
    ELSE IF IsString(v) THEN JSV_String
    ELSE IF IsStringObject(v) THEN JSV_StringObject
    ELSE IF IsDate(v) THEN JSV_Date
    ELSE IF IsArray(v) THEN JSV_Array
    ELSE IF IsRegExp(v) THEN JSV_RegExp
    ELSE IF IsNull(v) THEN JSV_Object
    ELSE IF IsFunction(v) THEN JSV_Function
    ELSE IF IsExternal(v) THEN JSV_Undefined
    ELSE IF IsNativeError(v) THEN JSV_Undefined
    ELSE IF IsUndefined(v) THEN JSV_Undefined
    ELSE IF IsObject(v) THEN JSV_Object
    ELSE JSV_Undefined

\* ------------------------------------------------------------------ state

VARIABLES
    engine,        \* "live" | "disposing" (flag set, state not yet released) | "gone"
    gcCallback,    \* _ManagedV8GarbageCollectionRequestCallback != nullptr
    hp,            \* the HandleProxy records, by _ID
    nHandles,      \* _Handles.size()
    pool,          \* _DisposedHandles
    cells,         \* the engine's persistent cells
    mutexOwner,    \* _HandleSystemMutex: the thread inside it, or "none"
    pc,            \* each thread's position
    cur,           \* the handle a thread's operation works on
    stack,         \* the callers of the _Dispose frames a thread is in
    rc,            \* the revival callback's locals: cell, dispose, asked
    calls,         \* the operations the host and the collector have started
    acq,           \* the value GetHandleProxy is acquiring a handle for
    fault,         \* "none", or how the process died
    ret,           \* what the Dispose the last step completed returned
    got,           \* the handle the acquisition the last step completed returned
    touched,       \* the last step accessed engine state the engine had released
    staleDeref,    \* the last step used the reference of a detached or cleared handle
    apiUnderLock   \* the last step made an engine API call inside the mutex

vars == <<engine, gcCallback, hp, nHandles, pool, cells, mutexOwner,
          pc, cur, stack, rc, acq, calls, fault, ret, got, touched, staleDeref, apiUnderLock>>

registry == <<hp, nHandles, pool, cells>>
frames == <<pc, cur, stack, rc>>

\* One engine object seen through one handle, and the template interceptors
\* the engine calls with that object as the holder.
VARIABLES
    object,        \* the object: its internal fields and its hidden marker
    holds,         \* the handle's _Handle refers to the object
    ObjectID,      \* the handle's managed object id
    last           \* what the last operation on the object did and returned

ovars == <<object, holds, ObjectID, last>>

\* One object template with the latest instance made from it, and one function
\* template.
VARIABLES
    otp,           \* the ObjectTemplateProxy: its template and its stored handlers
    ftp,           \* the FunctionTemplateProxy: its template
    instance,      \* the interceptors the latest instance of otp carries
    tlast          \* what the last operation on a template did

tvars == <<otp, ftp, instance, tlast>>

\* One function template's callback, the calls the engine and the host make
\* through it, and the exports that work on an object's properties.
VARIABLES
    callback,      \* the function template's _ManagedCallback != nullptr
    arrays,        \* the argument arrays allocated and not freed
    clast          \* what the last call did and returned

cvars == <<callback, arrays, clast>>

\* The engine values a script passes around.
ScriptValues == {"a", "b"}

\* A handle, by the engine value it tracks; no handle.
HandleFor(v) == [tracks |-> v]
NoHandleProxy == [tracks |-> "none"]

\* What the host's function callback returns: nullptr, or a handle with its
\* kind tag and its engine value.
NullResult == [null |-> TRUE, type |-> JSV_Undefined, value |-> "a"]
HostResults ==
    {NullResult} \cup
    [null : {FALSE},
     type : {JSV_ExecutionError, JSV_InternalError, JSV_Undefined},
     value : ScriptValues]

\* What a call gives the engine: nothing (the empty handle), a value, or a
\* thrown exception with its message.
Undefined == [kind |-> "empty", val |-> "none", msg |-> "none"]
Returns(v) == [kind |-> "value", val |-> v, msg |-> "none"]
Throws(m) == [kind |-> "thrown", val |-> "none", msg |-> m]

\* A step that was no call.
NoFunctionCall ==
    [op |-> "none",
     registered |-> FALSE, hostCalls |-> 0, inConstruct |-> FALSE, isConstruct |-> FALSE,
     holder |-> "none", receiver |-> "none", given |-> <<>>,
     this |-> NoHandleProxy, args |-> <<>>, result |-> NullResult, out |-> Undefined,
     target |-> "none", required |-> "none", subject |-> "none", named |-> FALSE,
     threw |-> "none", called |-> FALSE, behaviour |-> "none", returned |-> "none",
     acquired |-> FALSE, wrote |-> FALSE]

\* The two kinds of property handlers and the five handlers of a kind.
Kinds == {"Named", "Indexed"}
HandlerNames == {"Getter", "Setter", "Query", "Deleter", "Enumerator"}

\* No template proxy: not created yet, or deleted.
NoTemplate == [alive |-> FALSE, ref |-> FALSE,
               installed |-> [k \in Kinds |-> FALSE],
               handlers |-> [k \in Kinds |-> {}]]

\* No instance of the template.
NoInstance == [k \in Kinds |-> FALSE]

\* A step that was no call on a template.
NoTemplateCall == [op |-> "none", turn |-> 0, scopes |-> FALSE, released |-> FALSE,
                   invoked |-> FALSE, nullCall |-> FALSE]

\* The ids the host gives its objects, and -1.
IdValues == -1 .. MaxID

\* What the host's query and deleter handlers return.
HandlerInts == -1 .. MaxResult

\* A value that is no object; also the object before the handle has one.
NoObject == [isObject |-> FALSE, fields |-> 0, f0 |-> "undefined",
             f1ext |-> FALSE, f1 |-> 0, hiddenInt |-> FALSE, hidden |-> 0]

\* A step that was no call on the object.
NoCall == [op |-> "none", turn |-> 0, inspected |-> FALSE, result |-> 0, threw |-> FALSE,
           named |-> FALSE, invoked |-> FALSE, strings |-> FALSE, handles |-> FALSE,
           passed |-> 0, proxy |-> "null", before |-> 0, events |-> <<>>,
           answer |-> "null", code |-> 0, null |-> FALSE, ran |-> FALSE,
           out |-> [kind |-> "none", val |-> "null", num |-> 0, flag |-> FALSE]]

\* The record of a call of op; turn tells a call from the one before it.
Did(op) == [NoCall EXCEPT !.op = op, !.turn = 1 - last.turn]

\* A HandleValue: the numeric union and the string pointer.
EmptyBox == [num |-> 0, str |-> FALSE]

\* A slot of hp no record was allocated for.
NoRecord == [mem |-> "none", known |-> FALSE, Disposed |-> 0, ManagedObjectID |-> -1,
             Type |-> JSV_InternalError, Value |-> EmptyBox, Handle |-> EmptyRef]

FreeCell == [val |-> "none", weak |-> FALSE, param |-> NoHandle, pending |-> FALSE]

NoRevival == [cell |-> EmptyRef, dispose |-> TRUE, asked |-> FALSE]

\* _Disposed is not set by the constructor (HandleProxy.cpp 9-14): what a
\* fresh record's field may read as.
UninitDisposed == {0, 1, 2}

Init ==
    /\ engine = "live"
    /\ gcCallback = FALSE
    /\ hp = [h \in HandleIds |-> NoRecord]
    /\ nHandles = 0
    /\ pool = <<>>
    /\ cells = [c \in CellIds |-> FreeCell]
    /\ mutexOwner = "none"
    /\ pc = [t \in Threads |-> "idle"]
    /\ cur = [t \in Threads |-> NoHandle]
    /\ stack = [t \in Threads |-> <<>>]
    /\ rc = [t \in Threads |-> NoRevival]
    /\ acq = "none"
    /\ calls = 0
    /\ fault = "none"
    /\ ret = "none"
    /\ got = NoHandle
    /\ touched = FALSE
    /\ staleDeref = FALSE
    /\ apiUnderLock = FALSE
    /\ object = NoObject
    /\ holds = FALSE
    /\ ObjectID = -1
    /\ last = NoCall
    /\ otp = NoTemplate
    /\ ftp = NoTemplate
    /\ instance = NoInstance
    /\ tlast = NoTemplateCall
    /\ callback = FALSE
    /\ arrays = 0
    /\ clast = NoFunctionCall

\* ---------------------------------------------------------------- helpers

\* V8EngineProxy::IsDisposed(engineID): the engine's entry of _DisposedEngines.
IsDisposed == engine # "live"

\* A thread may take the recursive mutex: it is free or already the thread's.
CanLock(t) == mutexOwner \in {"none", t}

\* HandleValue::Dispose(): frees the marshalled string, keeps the number.
ValueDispose(box) == [box EXCEPT !.str = FALSE]

\* The value a handle's reference points at, "none" for an empty reference
\* and for a cell that was released.
Tracked(h) == IF hp[h].Handle = EmptyRef THEN "none" ELSE cells[hp[h].Handle].val

\* What the step did: tch, it accessed engine state the engine had released;
\* stl, it used a detached or cleared handle's reference; api, it called
\* the engine's API inside the mutex.
Events(tch, stl, api) ==
    /\ touched' = tch
    /\ staleDeref' = stl
    /\ apiUnderLock' = api
    /\ UNCHANGED <<ovars, tvars, cvars>>

\* A step of bookkeeping only, which leaves the process running.
Quiet ==
    /\ Events(FALSE, FALSE, FALSE)
    /\ fault' = fault

\* The host or the collector starts an operation.
Call ==
    /\ calls < MaxCalls
    /\ calls' = calls + 1

\* The thread finished its operation.
Idle(t) ==
    /\ pc' = [pc EXCEPT ![t] = "idle"]
    /\ cur' = [cur EXCEPT ![t] = NoHandle]
    /\ stack' = [stack EXCEPT ![t] = <<>>]
    /\ rc' = [rc EXCEPT ![t] = NoRevival]

Returned(b) == IF b THEN "true" ELSE "false"

\* The step completed no operation that returns a result.
NoResult ==
    /\ ret' = "none"
    /\ got' = NoHandle

\* _Dispose returns r to its caller.  To Dispose (line 53), which returns it.
\* To V8EngineProxy::DisposeHandleProxy, which queues a handle _Dispose(false)
\* detached as a free slot and gives the mutex back; line 38 then returns
\* true.  To Initialize (line 60), which goes on to line 62.
Return(t, r) ==
    LET n == Len(stack[t])
        caller == stack[t][n]
    IN  CASE caller = "Dispose" ->
                /\ Idle(t)
                /\ ret' = Returned(r)
                /\ got' = NoHandle
                /\ UNCHANGED <<pool, mutexOwner>>
          [] caller = "DHP" ->
                /\ Idle(t)
                /\ ret' = Returned(TRUE)
                /\ got' = NoHandle
                /\ pool' = IF r THEN Append(pool, cur[t]) ELSE pool
                /\ mutexOwner' = "none"
          [] caller = "Init" ->
                /\ pc' = [pc EXCEPT ![t] = "Init62"]
                /\ stack' = [stack EXCEPT ![t] = SubSeq(stack[t], 1, n - 1)]
                /\ NoResult
                /\ UNCHANGED <<cur, rc, pool, mutexOwner>>

\* The cells with cell c released (Persistent::Dispose).
Released(cs, c) == IF c = EmptyRef THEN cs ELSE [cs EXCEPT ![c] = FreeCell]

\* What an operation that ran into undefined behaviour does to the process.
Outcome(ub, crash) == IF ub /\ crash THEN "segv" ELSE fault

\* A host thread may start an operation on h: it holds the pointer (the
\* record was returned to it) and the record's memory is allocated.
HostHolds(t, h) ==
    /\ fault = "none"
    /\ pc[t] = "idle"
    /\ hp[h].mem = "alloc"
    /\ hp[h].known

\* ------------------------------------------------- HandleProxy::_Dispose

\* The innermost _Dispose frame's registerDisposal argument: true only for
\* the call Dispose() makes (HandleProxy.cpp 53).
RegisterDisposal(t) == stack[t][Len(stack[t])] = "Dispose"

\* ~HandleProxy frames on the thread's stack.
DtorDepth(t) == Cardinality({i \in 1 .. Len(stack[t]) : stack[t][i] = "dtor"})

\* A variant of lines 30-48 that never registers the disposal, as if line 35
\* were skipped.
Dispose30Unregistered(engineDisposed, disposed, registerDisposal) ==
    IF engineDisposed THEN "D31"
    ELSE IF disposed = 1 THEN "D41" ELSE "return"

\* A variant of lines 30-48 that takes any non-zero state for a disposal to
\* carry out, as if line 33 tested _Disposed >= 1.
Dispose30Repeated(engineDisposed, disposed, registerDisposal) ==
    IF engineDisposed THEN "D31"
    ELSE IF disposed >= 1
         THEN IF registerDisposal THEN "D37" ELSE "D41"
         ELSE "return"

\* Lines 30-48: where _Dispose goes after its tests.
Dispose30(engineDisposed, disposed, registerDisposal) ==
    IF engineDisposed THEN "D31"
    ELSE IF disposed = 1
         THEN IF registerDisposal THEN "D37" ELSE "D41"
         ELSE "return"

\* A variant of lines 41-43 that also releases and clears _Handle, as if
\* line 42 were _Handle.Dispose().
Dispose41_43Releasing(r) ==
    [r EXCEPT !.ManagedObjectID = -1, !.Value = ValueDispose(r.Value), !.Disposed = 2,
              !.Handle = EmptyRef]

\* A variant of lines 41-43 that stores 3 for a detached handle.
Dispose41_43Virtual(r) ==
    [r EXCEPT !.ManagedObjectID = -1, !.Value = ValueDispose(r.Value), !.Disposed = 3]

\* Lines 41-43: the record after the detaching writes.
Dispose41_43(r) ==
    [r EXCEPT !.ManagedObjectID = -1, !.Value = ValueDispose(r.Value), !.Disposed = 2]

\* bool HandleProxy::Dispose() (HandleProxy.cpp 51-54, Exports.cpp 342).
Dispose(t, h) ==
    /\ HostHolds(t, h)
    /\ Call
    /\ pc' = [pc EXCEPT ![t] = "D28"]
    /\ cur' = [cur EXCEPT ![t] = h]
    /\ stack' = [stack EXCEPT ![t] = <<"Dispose">>]
    /\ NoResult
    /\ Quiet
    /\ UNCHANGED <<rc, engine, gcCallback, registry, mutexOwner, acq>>

\* Lines 28-33 and 48.  The lock_guard of line 28 is an unnamed temporary:
\* it takes the mutex and gives it back before line 30 runs.  Its operand is
\* a member of the engine proxy, which is read before IsDisposed is asked.
Dispose28(t, crash) ==
    /\ fault = "none"
    /\ calls' = calls
    /\ pc[t] = "D28"
    /\ CanLock(t)
    /\ Events(engine = "gone", FALSE, FALSE)
    /\ fault' = Outcome(engine = "gone", crash)
    /\ IF fault' # "none"
       THEN /\ NoResult
            /\ UNCHANGED <<frames, pool, mutexOwner>>
       ELSE LET next == Dispose30(IsDisposed, hp[cur[t]].Disposed, RegisterDisposal(t))
            IN  IF next = "return"
                THEN Return(t, FALSE)
                ELSE /\ pc' = [pc EXCEPT ![t] = next]
                     /\ NoResult
                     /\ UNCHANGED <<cur, stack, rc, pool, mutexOwner>>
    /\ UNCHANGED <<engine, gcCallback, hp, nHandles, cells, acq>>

\* Line 31: delete this runs ~HandleProxy (18-22), whose first statement is
\* _Dispose(false).  That call finds the engine disposed again, so line 21
\* and the release of the record's memory are never reached.
Dispose31(t) ==
    /\ fault = "none"
    /\ calls' = calls
    /\ pc[t] = "D31"
    /\ IF DtorDepth(t) >= MaxDepth
       THEN /\ fault' = "stack_overflow"
            /\ UNCHANGED frames
       ELSE /\ stack' = [stack EXCEPT ![t] = Append(stack[t], "dtor")]
            /\ pc' = [pc EXCEPT ![t] = "D28"]
            /\ UNCHANGED <<cur, rc, fault>>
    /\ NoResult
    /\ Events(FALSE, FALSE, FALSE)
    /\ UNCHANGED <<engine, gcCallback, registry, mutexOwner, acq>>

\* Line 37, into V8EngineProxy::DisposeHandleProxy: the registry takes its
\* mutex and calls _Dispose(false).
Dispose37(t, crash) ==
    /\ fault = "none"
    /\ calls' = calls
    /\ pc[t] = "D37"
    /\ CanLock(t)
    /\ Events(engine = "gone", FALSE, FALSE)
    /\ fault' = Outcome(engine = "gone", crash)
    /\ IF fault' # "none"
       THEN UNCHANGED <<frames, mutexOwner>>
       ELSE /\ mutexOwner' = t
            /\ stack' = [stack EXCEPT ![t] = Append(stack[t], "DHP")]
            /\ pc' = [pc EXCEPT ![t] = "D28"]
            /\ UNCHANGED <<cur, rc>>
    /\ NoResult
    /\ UNCHANGED <<engine, gcCallback, registry, acq>>

\* Lines 41-45.  A change of the record's reference is the engine call that
\* releases it.
Dispose41(t) ==
    /\ fault = "none"
    /\ calls' = calls
    /\ pc[t] = "D41"
    /\ LET h == cur[t]
           new == Dispose41_43(hp[h])
           released == new.Handle # hp[h].Handle
       IN  /\ hp' = [hp EXCEPT ![h] = new]
           /\ cells' = IF released THEN Released(cells, hp[h].Handle) ELSE cells
           /\ Events(FALSE, FALSE, released /\ mutexOwner = t)
    /\ Return(t, TRUE)
    /\ UNCHANGED <<engine, gcCallback, nHandles, acq, fault>>

\* ------------------------------------- GetHandleProxy and Initialize

\* The handles that are Active and track value v.
ActiveFor(v) == {h \in HandleIds : hp[h].mem = "alloc" /\ hp[h].Disposed = 0 /\ Tracked(h) = v}

\* A variant of the registry's lookup that never finds a handle.
CachedNever(v) == {}

\* The registry's lookup of a handle already tracking v.
Cached(v) == ActiveFor(v)

\* HandleProxy::HandleProxy (HandleProxy.cpp 9-14); _Disposed is left as found.
NewRecord(d) == [mem |-> "alloc", known |-> FALSE, Disposed |-> d, ManagedObjectID |-> -1,
                 Type |-> JSV_InternalError, Value |-> EmptyBox, Handle |-> EmptyRef]

\* Line 60: Initialize calls _Dispose(false) first when _Disposed > 0.
Initialize60(t, h, d) ==
    /\ cur' = [cur EXCEPT ![t] = h]
    /\ pc' = [pc EXCEPT ![t] = IF d > 0 THEN "D28" ELSE "Init62"]
    /\ stack' = [stack EXCEPT ![t] = IF d > 0 THEN <<"Init">> ELSE <<>>]
    /\ rc' = rc

\* V8EngineProxy::GetHandleProxy, on the engine thread.  Inside the registry's
\* mutex: a handle that is Active and tracks the value is returned as it is;
\* otherwise a recycled slot is popped or a new record allocated.  The mutex
\* is given back before Initialize touches the engine.
GetHandleProxy(t, v, d) ==
    /\ fault = "none"
    /\ Call
    /\ t = EngineThread
    /\ pc[t] = "idle"
    /\ engine = "live"
    /\ CanLock(t)
    /\ IF Cached(v) # {}
       THEN /\ got' = CHOOSE h \in Cached(v) : TRUE
            /\ UNCHANGED <<hp, nHandles, pool, frames, acq>>
       ELSE /\ acq' = v
            /\ got' = NoHandle
            /\ IF pool # <<>>
               THEN LET h == pool[Len(pool)]
                    IN  /\ pool' = SubSeq(pool, 1, Len(pool) - 1)
                        /\ Initialize60(t, h, hp[h].Disposed)
                        /\ UNCHANGED <<hp, nHandles>>
               ELSE /\ nHandles < MaxHandles
                    /\ hp' = [hp EXCEPT ![nHandles] = NewRecord(d)]
                    /\ nHandles' = nHandles + 1
                    /\ Initialize60(t, nHandles, d)
                    /\ pool' = pool
    /\ ret' = "none"
    /\ Quiet
    /\ UNCHANGED <<engine, gcCallback, cells, mutexOwner>>

\* A variant of lines 73-77 that keeps the reference the slot held.
ClearedNot(cs, ref) == cs

\* SetHandle, lines 73-77: a reference that is not empty is released and
\* cleared before the new one is made.
Cleared(cs, ref) == Released(cs, ref)

\* Lines 62-66: SetHandle (71-159) releases the reference the slot still
\* holds, takes a new persistent reference to the value and classifies it;
\* then the handle is Active and goes to the host.
Initialize62(t) ==
    /\ fault = "none"
    /\ calls' = calls
    /\ pc[t] = "Init62"
    /\ LET h == cur[t]
           old == Cleared(cells, hp[h].Handle)
           c == CHOOSE x \in CellIds : /\ old[x] = FreeCell
                                       /\ \A y \in CellIds : old[y] = FreeCell => x <= y
       IN  /\ \E x \in CellIds : old[x] = FreeCell
           /\ cells' = [old EXCEPT ![c] = [val |-> acq, weak |-> FALSE,
                                           param |-> NoHandle, pending |-> FALSE]]
           /\ hp' = [hp EXCEPT ![h] = [@ EXCEPT !.Handle = c, !.Type = TypeOf(acq),
                                                !.Disposed = 0, !.known = TRUE]]
           /\ got' = h
    /\ acq' = "none"
    /\ ret' = "none"
    /\ Events(FALSE, FALSE, mutexOwner = t)
    /\ Idle(t)
    /\ UNCHANGED <<engine, gcCallback, nHandles, pool, mutexOwner, fault>>

\* ------------------------------------------------------ host operations

\* The host writes 1 into _Disposed of a handle it is about to dispose
\* (ProxyTypes.h 174: "1: managed disposing in progress").
HostSetDisposing(t, h) ==
    /\ HostHolds(t, h)
    /\ Call
    /\ hp[h].Disposed = 0
    /\ hp' = [hp EXCEPT ![h].Disposed = 1]
    /\ NoResult
    /\ Quiet
    /\ UNCHANGED <<engine, gcCallback, nHandles, pool, cells, mutexOwner, frames, acq>>

\* V8EngineProxy::RegisterGCCallback (Exports.cpp 80-81).
RegisterGCCallback(t, cb) ==
    /\ fault = "none"
    /\ Call
    /\ t = EngineThread
    /\ pc[t] = "idle"
    /\ engine = "live"
    /\ gcCallback' = cb
    /\ NoResult
    /\ Quiet
    /\ UNCHANGED <<engine, registry, mutexOwner, frames, acq>>

\* The handle is Detached, or its reference was released and cleared.
Stale(h) == hp[h].Disposed = 2 \/ hp[h].Handle = EmptyRef

\* The reference cannot be used: it is empty, or the engine's state is gone.
Unusable(h) == hp[h].Handle = EmptyRef \/ engine = "gone"

\* HandleProxy::MakeWeak (207-210): reads the engine proxy's isolate and
\* makes the reference weak, with the handle as the callback's parameter.
MakeWeak(t, h, crash) ==
    /\ HostHolds(t, h)
    /\ Call
    /\ Events(engine = "gone", Stale(h), mutexOwner = t)
    /\ fault' = Outcome(Unusable(h), crash)
    /\ cells' = IF Unusable(h) THEN cells
                ELSE [cells EXCEPT ![hp[h].Handle].weak = TRUE, ![hp[h].Handle].param = h]
    /\ NoResult
    /\ UNCHANGED <<engine, gcCallback, hp, nHandles, pool, mutexOwner, frames, acq>>

\* A variant of MakeStrong that leaves the callback's registration in place.
MakeStrongRegistered(t, h, crash) ==
    /\ HostHolds(t, h)
    /\ Call
    /\ Events(engine = "gone", Stale(h), mutexOwner = t)
    /\ fault' = Outcome(Unusable(h), crash)
    /\ cells' = IF Unusable(h) THEN cells
                ELSE [cells EXCEPT ![hp[h].Handle].weak = FALSE]
    /\ NoResult
    /\ UNCHANGED <<engine, gcCallback, hp, nHandles, pool, mutexOwner, frames, acq>>

\* HandleProxy::MakeStrong (213-216).
MakeStrong(t, h, crash) ==
    /\ HostHolds(t, h)
    /\ Call
    /\ Events(engine = "gone", Stale(h), mutexOwner = t)
    /\ fault' = Outcome(Unusable(h), crash)
    /\ cells' = IF Unusable(h) THEN cells
                ELSE [cells EXCEPT ![hp[h].Handle].weak = FALSE,
                                   ![hp[h].Handle].param = NoHandle]
    /\ NoResult
    /\ UNCHANGED <<engine, gcCallback, hp, nHandles, pool, mutexOwner, frames, acq>>

\* The kinds whose case of UpdateValue's switch uses _Handle unguarded
\* (254-288); JSV_Undefined uses nothing, the default case tests IsEmpty.
UnguardedKinds == {JSV_Bool, JSV_BoolObject, JSV_Int32, JSV_Number, JSV_NumberObject,
                   JSV_String, JSV_StringObject, JSV_Date}

\* UpdateValue uses the reference of a handle of this kind and reference.
UpdateValueUses(type, ref) ==
    \/ type \in UnguardedKinds
    \/ (type # JSV_Undefined /\ ref # EmptyRef)

\* The Value Box UpdateValue leaves for a handle of kind type tracking v.
UpdateValueBox(type, v) ==
    IF type \in {JSV_Bool, JSV_BoolObject, JSV_Int32, JSV_Number, JSV_NumberObject}
    THEN [num |-> NumberOf(v), str |-> FALSE]
    ELSE IF type = JSV_Date THEN [num |-> NumberOf(v), str |-> TRUE]
    ELSE IF type = JSV_Undefined THEN [num |-> 0, str |-> FALSE]
    ELSE [num |-> 0, str |-> TRUE]

\* HandleProxy::UpdateValue (247-307).
UpdateValue(t, h, crash) ==
    /\ HostHolds(t, h)
    /\ Call
    /\ LET uses == UpdateValueUses(hp[h].Type, hp[h].Handle)
           ub == uses /\ Unusable(h)
       IN  /\ Events(uses /\ engine = "gone", uses /\ Stale(h), uses /\ mutexOwner = t)
           /\ fault' = Outcome(ub, crash)
           /\ hp' = [hp EXCEPT ![h].Value =
                        IF ub \/ ~uses
                        THEN IF hp[h].Type = JSV_Undefined
                             THEN [num |-> 0, str |-> FALSE]
                             ELSE ValueDispose(@)
                        ELSE UpdateValueBox(hp[h].Type, Tracked(h))]
    /\ NoResult
    /\ UNCHANGED <<engine, gcCallback, nHandles, pool, cells, mutexOwner, frames, acq>>

\* Lines 180-199: the id the object's layout yields, -2 when it yields none.
\* A variant of lines 180-199 that never reads the hidden marker.
ResolveSlotsOnly(isObject, fields, f1ext, f1, hiddenInt, hidden) ==
    IF isObject /\ fields > 1 /\ f1ext THEN f1 ELSE -2

ResolveSlots(isObject, fields, f1ext, f1, hiddenInt, hidden) ==
    IF isObject
    THEN IF fields > 1
         THEN IF f1ext THEN f1 ELSE -2
         ELSE IF hiddenInt THEN hidden ELSE -2
    ELSE -2

\* Lines 180-199 on engine value v.
ResolveID(v) ==
    ResolveSlots(IsObject(v), InternalFieldCount(v), Field1IsExternal(v), Field1Value(v),
                 HiddenIsInt32(v), HiddenInt32Value(v))

\* Line 175: the id was resolved before and is returned as cached.
IsResolved(id) == id < -1 \/ id >= 0

\* HandleProxy::GetManagedObjectID (173-202).
GetManagedObjectID(t, h, crash) ==
    /\ HostHolds(t, h)
    /\ Call
    /\ LET uses == ~IsResolved(hp[h].ManagedObjectID)
           ub == uses /\ Unusable(h)
       IN  /\ Events(uses /\ engine = "gone", uses /\ Stale(h), uses /\ mutexOwner = t)
           /\ fault' = Outcome(ub, crash)
           /\ hp' = IF ~uses THEN hp
                    ELSE [hp EXCEPT ![h].ManagedObjectID =
                             IF ub THEN -2 ELSE ResolveID(Tracked(h))]
    /\ NoResult
    /\ UNCHANGED <<engine, gcCallback, nHandles, pool, cells, mutexOwner, frames, acq>>

\* ------------------------------------ HandleProxy::_RevivableCallback

\* A variant of lines 229-231 that also asks for an unresolved id, as if
\* line 231 tested _ManagedObjectID >= -1.
AsksHostUnresolved(callbackRegistered, managedObjectID) ==
    callbackRegistered /\ managedObjectID >= -1

\* Lines 229-231: the host's collector-request callback is asked.
AsksHost(callbackRegistered, managedObjectID) ==
    callbackRegistered /\ managedObjectID >= 0

\* A variant of lines 235-237 that ignores the host's answer.
ReleasesAlways(dispose, ref) == ref # EmptyRef

\* Lines 235-237: the reference is released.
Releases(dispose, ref) == dispose /\ ref # EmptyRef

\* The collector may reclaim the value of cell c: the cell is weak, no
\* callback for it is under way and no strong reference holds its value.
Reclaimable(c) ==
    /\ cells[c] # FreeCell
    /\ cells[c].weak
    /\ ~cells[c].pending
    /\ cells[c].param # NoHandle
    /\ \A d \in CellIds : (cells[d] # FreeCell /\ cells[d].val = cells[c].val) => cells[d].weak

\* The engine's collector, on the collector thread, calls _RevivableCallback
\* for weak cell c with the handle MakeWeak registered; lines 224-231 decide
\* whether to ask the host.
RevivableCallback(t, c) ==
    /\ fault = "none"
    /\ Call
    /\ t = CollectorThread
    /\ pc[t] = "idle"
    /\ engine = "live"
    /\ Reclaimable(c)
    /\ LET h == cells[c].param
       IN  /\ cur' = [cur EXCEPT ![t] = h]
           /\ pc' = [pc EXCEPT ![t] =
                        IF AsksHost(gcCallback, hp[h].ManagedObjectID) THEN "R232" ELSE "R235"]
    /\ rc' = [rc EXCEPT ![t] = [cell |-> c, dispose |-> TRUE, asked |-> FALSE]]
    /\ cells' = [cells EXCEPT ![c].pending = TRUE]
    /\ NoResult
    /\ Quiet
    /\ UNCHANGED <<engine, gcCallback, hp, nHandles, pool, mutexOwner, stack, acq>>

\* Line 232: the host's callback answers whether disposal may proceed.
Revivable232(t, answer) ==
    /\ fault = "none"
    /\ calls' = calls
    /\ pc[t] = "R232"
    /\ rc' = [rc EXCEPT ![t].dispose = answer, ![t].asked = TRUE]
    /\ pc' = [pc EXCEPT ![t] = "R235"]
    /\ NoResult
    /\ Quiet
    /\ UNCHANGED <<engine, gcCallback, registry, mutexOwner, cur, stack, acq>>

\* Lines 235-243: the handle's reference is released and cleared when
\* disposal proceeds and the reference is not empty.
Revivable235(t) ==
    /\ fault = "none"
    /\ calls' = calls
    /\ pc[t] = "R235"
    /\ LET h == cur[t]
           ref == hp[h].Handle
           rel == Releases(rc[t].dispose, ref)
           after == IF rel THEN Released(cells, ref) ELSE cells
       IN  /\ hp' = IF rel THEN [hp EXCEPT ![h].Handle = EmptyRef] ELSE hp
           /\ cells' = [c \in CellIds |->
                           IF c = rc[t].cell /\ after[c] # FreeCell
                           THEN [after[c] EXCEPT !.pending = FALSE]
                           ELSE after[c]]
           /\ Events(FALSE, FALSE, rel /\ mutexOwner = t)
    /\ Idle(t)
    /\ NoResult
    /\ UNCHANGED <<engine, gcCallback, nHandles, pool, mutexOwner, acq, fault>>

\* ------------------------------------------- V8EngineProxy::~V8EngineProxy

\* DestroyV8EngineProxy (Exports.cpp 74): the engine marks itself disposed
\* first.  The host does not destroy an engine whose collector is inside a
\* callback.
DestroyMark(t) ==
    /\ fault = "none"
    /\ Call
    /\ t = EngineThread
    /\ pc[t] = "idle"
    /\ engine = "live"
    /\ \A u \in Threads : pc[u] \notin {"R232", "R235"}
    /\ engine' = "disposing"
    /\ pc' = [pc EXCEPT ![t] = "T2"]
    /\ NoResult
    /\ Quiet
    /\ UNCHANGED <<gcCallback, registry, mutexOwner, cur, stack, rc, acq>>

\* Then the engine releases its state: the isolate with every persistent
\* cell, the registry with its mutex, and the records of the free pool (the
\* host owns the undisposed ones, HandleProxy.cpp 31).  It waits for the
\* mutex and for operations on the records it frees.
DestroyRelease(t) ==
    /\ fault = "none"
    /\ calls' = calls
    /\ pc[t] = "T2"
    /\ mutexOwner = "none"
    /\ \A u \in Threads : \A i \in 1 .. Len(pool) : cur[u] # pool[i]
    /\ engine' = "gone"
    /\ cells' = [c \in CellIds |-> FreeCell]
    /\ hp' = [h \in HandleIds |->
                 IF \E i \in 1 .. Len(pool) : pool[i] = h
                 THEN [hp[h] EXCEPT !.mem = "freed"]
                 ELSE hp[h]]
    /\ pool' = <<>>
    /\ Idle(t)
    /\ NoResult
    /\ Quiet
    /\ UNCHANGED <<gcCallback, nHandles, mutexOwner, acq>>

\* ---------------------------------------------------------- specification

Next ==
    \/ \E t \in Threads, h \in HandleIds : Dispose(t, h)
    \/ \E t \in Threads, crash \in BOOLEAN : Dispose28(t, crash)
    \/ \E t \in Threads : Dispose31(t)
    \/ \E t \in Threads, crash \in BOOLEAN : Dispose37(t, crash)
    \/ \E t \in Threads : Dispose41(t)
    \/ \E t \in Threads, v \in Values, d \in UninitDisposed : GetHandleProxy(t, v, d)
    \/ \E t \in Threads : Initialize62(t)
    \/ \E t \in Threads, h \in HandleIds : HostSetDisposing(t, h)
    \/ \E t \in Threads, cb \in BOOLEAN : RegisterGCCallback(t, cb)
    \/ \E t \in Threads, h \in HandleIds, crash \in BOOLEAN : MakeWeak(t, h, crash)
    \/ \E t \in Threads, h \in HandleIds, crash \in BOOLEAN : MakeStrong(t, h, crash)
    \/ \E t \in Threads, h \in HandleIds, crash \in BOOLEAN : UpdateValue(t, h, crash)
    \/ \E t \in Threads, h \in HandleIds, crash \in BOOLEAN : GetManagedObjectID(t, h, crash)
    \/ \E t \in Threads, c \in CellIds : RevivableCallback(t, c)
    \/ \E t \in Threads, answer \in BOOLEAN : Revivable232(t, answer)
    \/ \E t \in Threads : Revivable235(t)
    \/ \E t \in Threads : DestroyMark(t)
    \/ \E t \in Threads : DestroyRelease(t)

Spec == Init /\ [][Next]_vars

\* ------------------------------------------- one object and its handle

\* The objects the engine hands out: a value that is no object, a plain
\* object, and an instance of a template (two internal fields, not yet set).
FreshObjects ==
    { NoObject,
      [NoObject EXCEPT !.isObject = TRUE],
      [NoObject EXCEPT !.isObject = TRUE, !.fields = 2] }

\* What ConnectObject's templateProxy argument points to.
TemplateProxies == {"null", "ObjectTemplateProxyClass", "FunctionTemplateProxyClass"}

\* HandleProxy::Initialize (58-67) and SetHandle (71-159): a handle out of
\* use is given an engine value, a new one or the object an earlier handle
\* was connected to.  _Dispose (line 41) or the constructor (line 10) left
\* the id at -1.
SetHandle(o) ==
    /\ ~holds
    /\ ObjectID = -1
    /\ o \in FreshObjects \cup {object}
    /\ object' = o
    /\ holds' = TRUE
    /\ ObjectID' = ObjectID
    /\ last' = Did("SetHandle")
    /\ UNCHANGED <<vars, tvars, cvars>>

\* HandleProxy::_Dispose, lines 41-43, at the end of the handle's disposal:
\* the id is reset and the handle is out of use; the object lives on.
ResetManagedObjectID ==
    /\ holds
    /\ holds' = FALSE
    /\ ObjectID' = -1
    /\ object' = object
    /\ last' = Did("Dispose")
    /\ UNCHANGED <<vars, tvars, cvars>>

\* GetHandleManagedObjectID (Exports.cpp 345) on the handle:
\* HandleProxy::GetManagedObjectID (173-202).
GetHandleManagedObjectID ==
    /\ holds
    /\ LET uses == ~IsResolved(ObjectID)
           id == IF uses
                 THEN ResolveSlots(object.isObject, object.fields, object.f1ext, object.f1,
                                   object.hiddenInt, object.hidden)
                 ELSE ObjectID
       IN  /\ ObjectID' = id
           /\ last' = [Did("GetManagedObjectID") EXCEPT
                                     !.inspected = uses /\ object.isObject,
                                     !.result = id]
    /\ UNCHANGED <<object, holds>>
    /\ UNCHANGED <<vars, tvars, cvars>>

\* The exports of Exports.cpp 339-345, which take a handle pointer.
HandleExports ==
    {"MakeWeakHandle", "MakeStrongHandle", "DisposeHandleProxy", "UpdateHandleValue",
     "GetHandleManagedObjectID"}

\* A variant of the exports' test that lets every pointer through.
ExportRunsAlways(handleProxy) == TRUE

\* if (handleProxy != nullptr): the export calls the handle's method.
ExportRuns(handleProxy) == handleProxy # "null"

\* One of the exports called with a null pointer.  Line 345 returns -1 in
\* the else branch.  Calling the method would be a call through a null
\* pointer, after which the handle's fields may read as anything.
ExportOnNull(export) ==
    /\ LET runs == ExportRuns("null")
       IN  /\ last' = [Did(export) EXCEPT
                          !.null = TRUE,
                          !.ran = runs,
                          !.result = IF export = "GetHandleManagedObjectID" /\ ~runs
                                     THEN -1 ELSE 0]
           /\ IF runs
              THEN /\ ObjectID' \in -2 .. MaxID
                   /\ holds' \in BOOLEAN
              ELSE UNCHANGED <<ObjectID, holds>>
    /\ UNCHANGED object
    /\ UNCHANGED <<vars, tvars, cvars>>

\* A variant of lines 134-144 that stamps the hidden marker only.
ConnectedHiddenOnly(o, managedObjectID, templateProxy) ==
    IF ~o.isObject THEN o
    ELSE [o EXCEPT !.hiddenInt = TRUE, !.hidden = managedObjectID]

\* ConnectObject, lines 134-144: the object after the call.
Connected(o, managedObjectID, templateProxy) ==
    IF ~o.isObject THEN o
    ELSE IF o.fields > 1
         THEN [o EXCEPT !.f0 = IF templateProxy # "null" THEN templateProxy ELSE @,
                        !.f1ext = TRUE,
                        !.f1 = managedObjectID,
                        !.hiddenInt = TRUE,
                        !.hidden = managedObjectID]
         ELSE [o EXCEPT !.hiddenInt = TRUE, !.hidden = managedObjectID]

\* ConnectObject (Exports.cpp 131-146); line 145 sets the handle's id.
ConnectObject(managedObjectID, templateProxy) ==
    /\ holds
    /\ object' = Connected(object, managedObjectID, templateProxy)
    /\ ObjectID' = managedObjectID
    /\ holds' = holds
    /\ last' = [Did("ConnectObject") EXCEPT !.passed = managedObjectID,
                                            !.proxy = templateProxy,
                                            !.before = ObjectID]
    /\ UNCHANGED <<vars, tvars, cvars>>

\* A variant of lines 109-111 that leaves internal field 1 unset.
InstantiatedUntagged(managedObjectID) ==
    [NoObject EXCEPT !.isObject = TRUE,
                     !.fields = 2,
                     !.f0 = "FunctionTemplateProxyClass",
                     !.hiddenInt = TRUE,
                     !.hidden = managedObjectID]

\* FunctionTemplateProxy::CreateInstance, lines 102 and 109-111: the new
\* instance of the function's instance template (two internal fields) with
\* field 0, field 1 and the hidden marker set.
Instantiated(managedObjectID) ==
    [NoObject EXCEPT !.isObject = TRUE,
                     !.fields = 2,
                     !.f0 = "FunctionTemplateProxyClass",
                     !.f1ext = TRUE,
                     !.f1 = managedObjectID,
                     !.hiddenInt = TRUE,
                     !.hidden = managedObjectID]

\* FunctionTemplateProxy::CreateInstance (98-113): line 106 acquires a
\* handle for the new object, line 107 sets its id.  The array of line 100
\* is freed by line 103.
CreateInstance(managedObjectID) ==
    /\ ~holds
    /\ ObjectID = -1
    /\ object' = Instantiated(managedObjectID)
    /\ holds' = TRUE
    /\ ObjectID' = managedObjectID
    /\ last' = [Did("CreateInstance") EXCEPT !.passed = managedObjectID]
    /\ UNCHANGED <<vars, tvars, cvars>>

\* SetObjectAccessor (Exports.cpp 257-270): line 262 throws for a value that
\* is no object, line 265 stamps the hidden marker.
SetObjectAccessor(managedObjectID) ==
    /\ holds
    /\ object' = IF object.isObject
                 THEN [object EXCEPT !.hiddenInt = TRUE, !.hidden = managedObjectID]
                 ELSE object
    /\ last' = [Did("SetObjectAccessor") EXCEPT !.threw = ~object.isObject]
    /\ UNCHANGED <<holds, ObjectID>>
    /\ UNCHANGED <<vars, tvars, cvars>>

\* ------------------------------------------- the template's interceptors

\* What an interceptor returns to the engine: the empty handle ("not
\* intercepted"), a value, an integer or a boolean.
Empty == [kind |-> "empty", val |-> "null", num |-> 0, flag |-> FALSE]
ValueHandle(v) == [Empty EXCEPT !.kind = "value", !.val = v]
IntegerHandle(n) == [Empty EXCEPT !.kind = "integer", !.num = n]
BooleanHandle(b) == [Empty EXCEPT !.kind = "boolean", !.flag = b]

\* What the host's getter, setter and enumerator handlers return: nullptr,
\* or a handle, named by the engine value its _Handle refers to.
HandlerHandles == {"null"} \cup Values

\* A variant of lines 88-95 that does not look at the proxy's type.
InterceptsAnyProxy(fields, f0) ==
    /\ fields > 1
    /\ f0 # "undefined"
    /\ f0 # "null"

\* Lines 88-95, the same in each of the ten interceptors: the holder has
\* the two internal fields, field 0 is set, and it points to an
\* ObjectTemplateProxy.
Intercepts(fields, f0) ==
    /\ fields > 1
    /\ f0 # "undefined"
    /\ f0 # "null"
    /\ f0 = "ObjectTemplateProxyClass"

\* Line 99 and its copies: field 1 is read as an External.  When it is
\* none the cast yields whatever the build makes of it.
Field1Payloads(o) == IF o.f1ext THEN {o.f1} ELSE IdValues

\* A variant of lines 105-106 that never returns the handler's handle.
ReturnedHandleDropped(ready, result) == Empty

\* Lines 105-106, 131-132, 265-266, 292-293 (and 234-235, 393-394 for the
\* enumerators): a handle the handler returned gives its _Handle, nullptr
\* gives the empty handle.
ReturnedHandle(ready, result) ==
    IF ready /\ result # "null" THEN ValueHandle(result) ELSE Empty

\* Lines 167-168 and 324-325: the query handler's result.
ReturnedAttributes(ready, result) ==
    IF ready /\ result >= 0 THEN IntegerHandle(result) ELSE Empty

\* A variant of lines 199-200 that takes 0 for "not intercepted".
ReturnedDeletedPositive(ready, result) ==
    IF ready /\ result > 0 THEN BooleanHandle(TRUE) ELSE Empty

\* Lines 199-200 and 355-356: the deleter's result.
ReturnedDeleted(ready, result) ==
    IF ready /\ result >= 0 THEN BooleanHandle(result # 0) ELSE Empty

\* A variant of the interceptors' bodies that leaves the string to the host.
DispatchUnreleased(getsString, getsHandle) ==
    (IF getsString THEN <<"GetNativeString">> ELSE <<>>)
        \o (IF getsHandle THEN <<"GetHandleProxy">> ELSE <<>>)
        \o <<"handler">>

\* Lines 101-104, 133-137, 163-166, 194-197 and their indexed copies: what
\* an interceptor that passed the guard does, in order, before it returns.
Dispatch(getsString, getsHandle) ==
    (IF getsString THEN <<"GetNativeString">> ELSE <<>>)
        \o (IF getsHandle THEN <<"GetHandleProxy">> ELSE <<>>)
        \o <<"handler">>
        \o (IF getsString THEN <<"str.Dispose">> ELSE <<>>)

\* A variant of the record in which the indexed interceptors pass no id.
InterceptedIndexedBlind(op, named, ready, id, getsString, getsHandle) ==
    [Did(op) EXCEPT !.named = named,
                    !.events = IF ready THEN Dispatch(getsString, getsHandle) ELSE <<>>,
                    !.invoked = ready,
                    !.passed = IF ready /\ named THEN id ELSE 0,
                    !.strings = ready /\ getsString,
                    !.handles = ready /\ getsHandle]

\* The part of an interceptor's record all ten share: whether the handler
\* was invoked, with which id, and what string and handle it acquired.
Intercepted(op, named, ready, id, getsString, getsHandle) ==
    [Did(op) EXCEPT !.named = named,
                    !.events = IF ready THEN Dispatch(getsString, getsHandle) ELSE <<>>,
                    !.invoked = ready,
                    !.passed = IF ready THEN id ELSE 0,
                    !.strings = ready /\ getsString,
                    !.handles = ready /\ getsHandle]

\* What the GetProperty interceptor, named or indexed, does on holder o when
\* field 1 reads as id and the host's handler returns result.
GetPropertyOn(o, named, id, result) ==
    LET ready == Intercepts(o.fields, o.f0)
    IN  [Intercepted("GetProperty", named, ready, id, named, FALSE)
            EXCEPT !.answer = IF ready THEN result ELSE "null",
                   !.out = ReturnedHandle(ready, result)]

\* ObjectTemplateProxy::GetProperty, named (84-112) and indexed (246-272).
GetProperty(named, result) ==
    /\ object.isObject
    /\ \E id \in Field1Payloads(object) : last' = GetPropertyOn(object, named, id, result)
    /\ UNCHANGED <<object, holds, ObjectID>>
    /\ UNCHANGED <<vars, tvars, cvars>>

\* What the SetProperty interceptor, named or indexed, does on holder o when
\* field 1 reads as id and the host's handler returns result.
SetPropertyOn(o, named, id, result) ==
    LET ready == Intercepts(o.fields, o.f0)
    IN  [Intercepted("SetProperty", named, ready, id, named, TRUE)
            EXCEPT !.answer = IF ready THEN result ELSE "null",
                   !.out = ReturnedHandle(ready, result)]

\* ObjectTemplateProxy::SetProperty, named (116-145) and indexed (276-303).
SetProperty(named, result) ==
    /\ object.isObject
    /\ \E id \in Field1Payloads(object) : last' = SetPropertyOn(object, named, id, result)
    /\ UNCHANGED <<object, holds, ObjectID>>
    /\ UNCHANGED <<vars, tvars, cvars>>

\* What the GetPropertyAttributes interceptor, named or indexed, does on holder o when
\* field 1 reads as id and the host's handler returns result.
GetPropertyAttributesOn(o, named, id, result) ==
    LET ready == Intercepts(o.fields, o.f0)
    IN  [Intercepted("GetPropertyAttributes", named, ready, id, named, FALSE)
            EXCEPT !.code = IF ready THEN result ELSE 0,
                   !.out = ReturnedAttributes(ready, result)]

\* ObjectTemplateProxy::GetPropertyAttributes, named (149-176) and indexed
\* (307-332).
GetPropertyAttributes(named, result) ==
    /\ object.isObject
    /\ \E id \in Field1Payloads(object) : last' = GetPropertyAttributesOn(object, named, id, result)
    /\ UNCHANGED <<object, holds, ObjectID>>
    /\ UNCHANGED <<vars, tvars, cvars>>

\* What the DeleteProperty interceptor, named or indexed, does on holder o when
\* field 1 reads as id and the host's handler returns result.
DeletePropertyOn(o, named, id, result) ==
    LET ready == Intercepts(o.fields, o.f0)
    IN  [Intercepted("DeleteProperty", named, ready, id, named, FALSE)
            EXCEPT !.code = IF ready THEN result ELSE 0,
                   !.out = ReturnedDeleted(ready, result)]

\* ObjectTemplateProxy::DeleteProperty, named (180-211) and indexed
\* (336-366).
DeleteProperty(named, result) ==
    /\ object.isObject
    /\ \E id \in Field1Payloads(object) : last' = DeletePropertyOn(object, named, id, result)
    /\ UNCHANGED <<object, holds, ObjectID>>
    /\ UNCHANGED <<vars, tvars, cvars>>

\* What the GetPropertyNames interceptor, named or indexed, does on holder o when
\* field 1 reads as id and the host's handler returns result.
GetPropertyNamesOn(o, named, id, result) ==
    LET ready == Intercepts(o.fields, o.f0)
    IN  [Intercepted("GetPropertyNames", named, ready, id, FALSE, FALSE)
            EXCEPT !.answer = IF ready THEN result ELSE "null",
                   !.out = ReturnedHandle(ready, result)]

\* ObjectTemplateProxy::GetPropertyNames (215-240) and GetPropertyIndices
\* (370-396).
GetPropertyNames(named, result) ==
    /\ object.isObject
    /\ \E id \in Field1Payloads(object) : last' = GetPropertyNamesOn(object, named, id, result)
    /\ UNCHANGED <<object, holds, ObjectID>>
    /\ UNCHANGED <<vars, tvars, cvars>>

\* The ten interceptors.
Interceptors ==
    {"GetProperty", "SetProperty", "GetPropertyAttributes", "DeleteProperty", "GetPropertyNames"}

\* The interceptor op on holder o.
InterceptorOn(op, o, named, id, result) ==
    CASE op = "GetProperty" -> GetPropertyOn(o, named, id, result)
      [] op = "SetProperty" -> SetPropertyOn(o, named, id, result)
      [] op = "GetPropertyAttributes" -> GetPropertyAttributesOn(o, named, id, result)
      [] op = "DeleteProperty" -> DeletePropertyOn(o, named, id, result)
      [] op = "GetPropertyNames" -> GetPropertyNamesOn(o, named, id, result)

\* What the handler of interceptor op may return.
HandlerResults(op) ==
    IF op \in {"GetPropertyAttributes", "DeleteProperty"} THEN HandlerInts ELSE HandlerHandles

NextObject ==
    \/ \E export \in HandleExports : ExportOnNull(export)
    \/ \E o \in FreshObjects \cup {object} : SetHandle(o)
    \/ ResetManagedObjectID
    \/ GetHandleManagedObjectID
    \/ \E m \in IdValues, tp \in TemplateProxies : ConnectObject(m, tp)
    \/ \E m \in IdValues : SetObjectAccessor(m)
    \/ \E m \in IdValues : CreateInstance(m)
    \/ \E named \in BOOLEAN, result \in HandlerHandles : GetProperty(named, result)
    \/ \E named \in BOOLEAN, result \in HandlerHandles : SetProperty(named, result)
    \/ \E named \in BOOLEAN, result \in HandlerInts : GetPropertyAttributes(named, result)
    \/ \E named \in BOOLEAN, result \in HandlerInts : DeleteProperty(named, result)
    \/ \E named \in BOOLEAN, result \in HandlerHandles : GetPropertyNames(named, result)

SpecObject == Init /\ [][NextObject]_<<ovars, vars>>

\* ----------------------------------------------------------- templates

\* The record of a call of op on a template.
DidTemplate(op) == [NoTemplateCall EXCEPT !.op = op, !.turn = 1 - tlast.turn]

\* The handler sets the host registers: all five, all but one, or none.
GivenSets == {HandlerNames, {}} \cup {HandlerNames \ {k} : k \in HandlerNames}

\* CreateObjectTemplateProxy (Exports.cpp 100): the constructor (5-10)
\* creates the persistent template and assigns no handler.  The handler
\* fields hold no value the program reads before a Register assigns them.
CreateObjectTemplateProxy ==
    /\ ~IsDisposed
    /\ ~otp.alive
    /\ otp' = [NoTemplate EXCEPT !.alive = TRUE, !.ref = TRUE]
    /\ instance' = NoInstance
    /\ tlast' = DidTemplate("ObjectTemplateProxy")
    /\ UNCHANGED ftp
    /\ UNCHANGED <<vars, ovars, cvars>>

\* CreateFunctionTemplateProxy (Exports.cpp 311): the constructor
\* (FunctionTemplateProxy.cpp 5-16) creates the persistent template.
CreateFunctionTemplateProxy ==
    /\ ~IsDisposed
    /\ ~ftp.alive
    /\ ftp' = [NoTemplate EXCEPT !.alive = TRUE, !.ref = TRUE]
    /\ tlast' = DidTemplate("FunctionTemplateProxy")
    /\ UNCHANGED <<otp, instance>>
    /\ UNCHANGED <<vars, ovars, cvars>>

\* Lines 45-51 and 61-67: the five arguments are stored as they are and the
\* five interceptors of the kind are installed.
Registered(t, kind, given) ==
    [t EXCEPT !.handlers[kind] = given, !.installed[kind] = TRUE]

\* ObjectTemplateProxy::RegisterNamedPropertyHandlers (38-52).
RegisterNamedPropertyHandlers(given) ==
    /\ ~IsDisposed
    /\ otp.alive
    /\ otp' = Registered(otp, "Named", given)
    /\ tlast' = DidTemplate("RegisterNamedPropertyHandlers")
    /\ UNCHANGED <<ftp, instance>>
    /\ UNCHANGED <<vars, ovars, cvars>>

\* ObjectTemplateProxy::RegisterIndexedPropertyHandlers (54-68).
RegisterIndexedPropertyHandlers(given) ==
    /\ ~IsDisposed
    /\ otp.alive
    /\ otp' = Registered(otp, "Indexed", given)
    /\ tlast' = DidTemplate("RegisterIndexedPropertyHandlers")
    /\ UNCHANGED <<ftp, instance>>
    /\ UNCHANGED <<vars, ovars, cvars>>

\* ObjectTemplateProxy::UnregisterNamedPropertyHandlers (72-75): the
\* interceptors are removed from the template, the stored handlers stay.
UnregisterNamedPropertyHandlers ==
    /\ ~IsDisposed
    /\ otp.alive
    /\ otp' = [otp EXCEPT !.installed["Named"] = FALSE]
    /\ tlast' = DidTemplate("UnregisterNamedPropertyHandlers")
    /\ UNCHANGED <<ftp, instance>>
    /\ UNCHANGED <<vars, ovars, cvars>>

\* ObjectTemplateProxy::UnregisterIndexedPropertyHandlers (77-80).
UnregisterIndexedPropertyHandlers ==
    /\ ~IsDisposed
    /\ otp.alive
    /\ otp' = [otp EXCEPT !.installed["Indexed"] = FALSE]
    /\ tlast' = DidTemplate("UnregisterIndexedPropertyHandlers")
    /\ UNCHANGED <<ftp, instance>>
    /\ UNCHANGED <<vars, ovars, cvars>>

\* ObjectTemplateProxy::CreateObject (400-406): the new instance carries the
\* interceptors the template has installed.
CreateObject ==
    /\ ~IsDisposed
    /\ otp.alive
    /\ instance' = otp.installed
    /\ tlast' = DidTemplate("CreateObject")
    /\ UNCHANGED <<otp, ftp>>
    /\ UNCHANGED <<vars, ovars, cvars>>

\* The engine calls interceptor k of a kind the instance carries; past the
\* guard the interceptor calls the handler stored in the proxy (lines 102,
\* 135, 165, 196, 233 and their indexed copies), null or not.
CallInterceptor(kind, k) ==
    /\ ~IsDisposed
    /\ otp.alive
    /\ instance[kind]
    /\ tlast' = [DidTemplate("Interceptor") EXCEPT
                     !.invoked = k \in otp.handlers[kind],
                     !.nullCall = k \notin otp.handlers[kind]]
    /\ UNCHANGED <<otp, ftp, instance>>
    /\ UNCHANGED <<vars, ovars, cvars>>

\* ObjectTemplateProxy.cpp 21-23 and FunctionTemplateProxy.cpp 24-27: the
\* destructor enters the isolate and context scopes.
EntersScopes(disposed) == ~disposed

\* A variant of the destructors that releases the template whatever the
\* engine's state.
ReleasesTemplateAlways(disposed, empty) == ~empty

\* ObjectTemplateProxy.cpp 21-27 and FunctionTemplateProxy.cpp 24-30: the
\* destructor releases the persistent template.
ReleasesTemplate(disposed, empty) == ~disposed /\ ~empty

\* The record of a destructor's run.
Destroyed(op, t) ==
    [DidTemplate(op) EXCEPT !.scopes = EntersScopes(IsDisposed),
                            !.released = ReleasesTemplate(IsDisposed, ~t.ref)]

\* DeleteObjectTemplateProxy (Exports.cpp 101):
\* ObjectTemplateProxy::~ObjectTemplateProxy (19-34).
DeleteObjectTemplateProxy ==
    /\ otp.alive
    /\ otp' = NoTemplate
    /\ tlast' = Destroyed("~ObjectTemplateProxy", otp)
    /\ UNCHANGED <<ftp, instance>>
    /\ UNCHANGED <<vars, ovars, cvars>>

\* DeleteFunctionTemplateProxy (Exports.cpp 313):
\* FunctionTemplateProxy::~FunctionTemplateProxy (18-37).
DeleteFunctionTemplateProxy ==
    /\ ftp.alive
    /\ ftp' = NoTemplate
    /\ tlast' = Destroyed("~FunctionTemplateProxy", ftp)
    /\ UNCHANGED <<otp, instance>>
    /\ UNCHANGED <<vars, ovars, cvars>>

NextTemplate ==
    \/ CreateObjectTemplateProxy
    \/ CreateFunctionTemplateProxy
    \/ \E given \in GivenSets : RegisterNamedPropertyHandlers(given)
    \/ \E given \in GivenSets : RegisterIndexedPropertyHandlers(given)
    \/ UnregisterNamedPropertyHandlers
    \/ UnregisterIndexedPropertyHandlers
    \/ CreateObject
    \/ \E kind \in Kinds, k \in HandlerNames : CallInterceptor(kind, k)
    \/ DeleteObjectTemplateProxy
    \/ DeleteFunctionTemplateProxy
    \/ \E t \in Threads : DestroyMark(t)
    \/ \E t \in Threads : DestroyRelease(t)

SpecTemplate == Init /\ [][NextTemplate]_<<tvars, vars, ovars>>

\* ------------------------------------------------ function calls, exports

\* The record of a call of op.
DidCall(op) == [NoFunctionCall EXCEPT !.op = op]

\* The argument lists of a script's call.
ArgLists == UNION {[1 .. n -> ScriptValues] : n \in 0 .. MaxArgs}

\* Value::ToString: the string form of an engine value.
StringOf(v) == CASE v = "a" -> "text of a" [] v = "b" -> "text of b" [] OTHER -> "text"

\* FunctionTemplateProxy::SetManagedCallback (41), called by the constructor
\* (15) with the callback the host gave, null or not.
SetManagedCallback(managedCallback) ==
    /\ callback' = managedCallback
    /\ clast' = DidCall("SetManagedCallback")
    /\ UNCHANGED arrays
    /\ UNCHANGED <<vars, ovars, tvars>>

\* Line 52: an array is allocated for a call with arguments.
NewArgs(argLength) == IF argLength > 0 THEN 1 ELSE 0

\* Lines 54-55: element i is the handle acquired for argument i.
ArgumentHandles(given) == [i \in 1 .. Len(given) |-> HandleFor(given[i])]

\* A variant of line 57 that takes the call's receiver.
ForwardedReceiver(holder, receiver) == HandleFor(receiver)

\* Line 57: the handle acquired for args.Holder().
ForwardedThis(holder, receiver) == HandleFor(holder)

\* A variant of line 204 that knows the internal error only.
IsErrorInternal(type) == type = JSV_InternalError

\* HandleProxy::IsError (ProxyTypes.h 204).
IsError(type) == type < 0

\* Lines 61-70: what the invocation gives the engine for the host's result.
Forwarded(result) ==
    IF ~result.null
    THEN IF IsError(result.type)
         THEN Throws(StringOf(result.value))
         ELSE Returns(result.value)
    ELSE Undefined

\* FunctionTemplateProxy::InvocationCallbackProxy (45-71): the engine calls
\* the template's function with arguments given, as a constructor or not.
\* The array of line 52 is not freed before the function returns.
InvocationCallbackProxy(given, construct, holder, receiver, result) ==
    /\ arrays < MaxArrays
    /\ arrays' = IF callback THEN arrays + NewArgs(Len(given)) ELSE arrays
    /\ clast' = [DidCall("InvocationCallbackProxy") EXCEPT
                     !.registered = callback,
                     !.hostCalls = IF callback THEN 1 ELSE 0,
                     !.inConstruct = construct,
                     !.isConstruct = callback /\ construct,
                     !.holder = holder,
                     !.receiver = receiver,
                     !.given = given,
                     !.this = IF callback THEN ForwardedThis(holder, receiver) ELSE NoHandleProxy,
                     !.args = IF callback THEN ArgumentHandles(given) ELSE <<>>,
                     !.result = IF callback THEN result ELSE NullResult,
                     !.out = IF callback THEN Forwarded(result) ELSE Undefined]
    /\ UNCHANGED callback
    /\ UNCHANGED <<vars, ovars, tvars>>

\* What a handle's reference is: empty, or a value of a kind.
TargetKinds == {"empty", "int", "object", "array", "function"}

\* A variant of the exports' test that only asks for a reference.
SatisfiesNonEmpty(kind, required) == kind # "empty"

\* handle.IsEmpty() || !handle->IsObject() (IsArray, IsFunction): the
\* reference is of the kind the export works on.  Arrays and functions are
\* objects.
Satisfies(kind, required) ==
    /\ kind # "empty"
    /\ CASE required = "object" -> kind \in {"object", "array", "function"}
         [] required = "array" -> kind = "array"
         [] required = "function" -> kind = "function"
         [] OTHER -> FALSE

\* Lines 160-182: the usage error Call throws, "none" when it goes on.
CallError(this, subject, named, property) ==
    IF ~Satisfies(this, "object") THEN "this is no object"
    ELSE IF named
         THEN IF ~Satisfies(subject, "object") THEN "subject is no object"
              ELSE IF ~Satisfies(property, "function") THEN "property is no function"
              ELSE "none"
         ELSE IF ~Satisfies(subject, "function") THEN "subject is no function"
              ELSE "none"

\* Line 196: Function::Call gives the empty handle for a function that
\* threw, and Call returns nullptr for it; else a handle for the result.
CallResult(behaviour) == IF behaviour = "throws" THEN "null" ELSE "handle"

\* Call (Exports.cpp 156-197).  The array of line 188 is freed by line 192.
CallFunction(subject, thisGiven, named, property, argCount, behaviour) ==
    /\ LET this == IF thisGiven = "null" THEN subject ELSE thisGiven
           error == CallError(this, subject, named, property)
           called == error = "none"
       IN  clast' = [DidCall("Call") EXCEPT
                        !.target = this,
                        !.subject = subject,
                        !.named = named,
                        !.threw = error,
                        !.called = called,
                        !.behaviour = IF called THEN behaviour ELSE "none",
                        !.returned = IF called THEN CallResult(behaviour) ELSE "none",
                        !.acquired = called /\ CallResult(behaviour) = "handle"]
    /\ arrays' = arrays
    /\ UNCHANGED callback
    /\ UNCHANGED <<vars, ovars, tvars>>

\* The exports of Exports.cpp 148-154 and 201-307 that begin with the test
\* of the handle's reference.
PropertyExports ==
    {"GetObjectPrototype", "SetObjectPropertyByName", "SetObjectPropertyByIndex",
     "GetObjectPropertyByName", "GetObjectPropertyByIndex", "DeleteObjectPropertyByName",
     "DeleteObjectPropertyByIndex", "SetObjectAccessor", "GetPropertyNames",
     "GetOwnPropertyNames", "GetPropertyAttributes", "GetArrayLength"}

\* Line 304 asks for an array, the others for an object.
Requires(op) == IF op = "GetArrayLength" THEN "array" ELSE "object"

\* The exports that return a handle acquired with GetHandleProxy.
Acquires(op) ==
    op \in {"GetObjectPrototype", "GetObjectPropertyByName", "GetObjectPropertyByIndex",
            "GetPropertyNames", "GetOwnPropertyNames"}

\* The exports that write to the object.
Writes(op) ==
    op \in {"SetObjectPropertyByName", "SetObjectPropertyByIndex", "DeleteObjectPropertyByName",
            "DeleteObjectPropertyByIndex", "SetObjectAccessor"}

\* One of the property exports on a handle whose reference is of kind target.
PropertyExport(op, target) ==
    /\ LET ok == Satisfies(target, Requires(op))
       IN  clast' = [DidCall(op) EXCEPT
                        !.target = target,
                        !.required = Requires(op),
                        !.threw = IF ok THEN "none" ELSE "usage error",
                        !.called = ok,
                        !.acquired = ok /\ Acquires(op),
                        !.wrote = ok /\ Writes(op)]
    /\ UNCHANGED <<callback, arrays>>
    /\ UNCHANGED <<vars, ovars, tvars>>

NextCall ==
    \/ \E cb \in BOOLEAN : SetManagedCallback(cb)
    \/ \E given \in ArgLists, construct \in BOOLEAN, holder \in ScriptValues,
          receiver \in ScriptValues, result \in HostResults :
            InvocationCallbackProxy(given, construct, holder, receiver, result)
    \/ \E subject \in TargetKinds, thisGiven \in TargetKinds \cup {"null"}, named \in BOOLEAN,
          argCount \in {0, MaxArgs}, behaviour \in {"returns", "throws"} :
            \E property \in IF named THEN TargetKinds ELSE {"empty"} :
                CallFunction(subject, thisGiven, named, property, argCount, behaviour)
    \/ \E op \in PropertyExports, target \in TargetKinds : PropertyExport(op, target)
    \/ \E m \in IdValues : CreateInstance(m)

SpecCall == Init /\ [][NextCall]_<<cvars, ovars, vars, tvars>>

\* ------------------------------------------------------------ properties

\* C1: after the engine was torn down, no operation on an outstanding handle
\* touches engine state and none faults.
C1_TeardownSafe == engine = "gone" => (~touched /\ fault = "none")

\* C2: a Dispose on a torn-down engine ends: the destructor is entered at
\* most once, so the record is freed once and the stack does not overflow.
C2_DisposeTerminates ==
    /\ \A t \in Threads : DtorDepth(t) <= 1
    /\ fault # "stack_overflow"

\* C3: a Dispose that saw the engine not disposed has finished with the
\* registry before the engine's state is released.
C3_DisposeBeforeRelease == \A t \in Threads : pc[t] = "D37" => engine # "gone"

\* C4: two threads never both pass the test of state 1 for the same handle.
C4_OneDisposerProceeds ==
    \A t, u \in Threads :
        (t # u /\ pc[t] \in {"D37", "D41"} /\ pc[u] \in {"D37", "D41"}) => cur[t] # cur[u]

\* C5: no step calls the engine's API inside the handle-system mutex.
C5_NoApiUnderLock == ~apiUnderLock

\* C5 happens: a thread is at the detaching writes inside the mutex, on a
\* handle that holds a reference.
C5_Witness ==
    \E t \in Threads : mutexOwner = t /\ pc[t] = "D41" /\ hp[cur[t]].Handle # EmptyRef

\* C6: on a live engine an Active handle the host holds has a non-empty
\* reference.
C6_ActiveHoldsReference ==
    engine = "live" =>
        \A h \in HandleIds :
            (hp[h].mem = "alloc" /\ hp[h].known /\ hp[h].Disposed = 0)
                => hp[h].Handle # EmptyRef

\* C7: no step uses the reference of a handle that is Detached or whose
\* reference was cleared.
C7_NoStaleDeref == ~staleDeref

\* C8: the revival callback goes to ask the host exactly when a callback is
\* registered and the handle's id is >= 0; asking changes no handle and no
\* cell, so any release comes after it; a callback that did not go to ask
\* reaches the release with nothing asked.
C8_AsksExactlyWhenTagged ==
    [][\A t \in Threads :
          /\ (pc[t] = "idle" /\ pc'[t] \in {"R232", "R235"}) =>
                /\ pc'[t] = "R232" <=> (gcCallback /\ hp[cur'[t]].ManagedObjectID >= 0)
                /\ ~rc'[t].asked
                /\ hp' = hp
          /\ (pc[t] = "R232" /\ pc'[t] # "R232") =>
                /\ pc'[t] = "R235"
                /\ rc'[t].asked
                /\ hp' = hp
                /\ cells' = cells
      ]_vars

\* C8 happens: the callback is asking the host about a handle with id >= 0.
C8_Witness ==
    \E t \in Threads : pc[t] = "R232" /\ gcCallback /\ hp[cur[t]].ManagedObjectID >= 0

\* The cells a step releases.
ReleasedCells == {c \in CellIds : cells[c] # FreeCell /\ cells'[c] = FreeCell}

\* C9: when the host answered "do not dispose" the callback's last step leaves
\* the handle and its reference as they were; when disposal proceeds, the
\* reference is released, once, and left empty, and nothing else of the
\* handle changes; an empty reference is not released.
C9_RevivalFrame ==
    [][\A t \in Threads :
          (pc[t] = "R235" /\ pc'[t] = "idle") =>
              LET h == cur[t]
                  ref == hp[h].Handle
              IN  /\ ~rc[t].dispose =>
                        /\ hp' = hp
                        /\ ReleasedCells = {}
                  /\ (rc[t].dispose /\ ref # EmptyRef) =>
                        /\ hp' = [hp EXCEPT ![h].Handle = EmptyRef]
                        /\ ReleasedCells = {ref}
                  /\ (rc[t].dispose /\ ref = EmptyRef) =>
                        /\ hp' = hp
                        /\ ReleasedCells = {}
      ]_vars

\* C9 happens: the host answered "do not dispose" and the callback is about
\* to decide on a handle that holds a reference.
C9_Witness ==
    \E t \in Threads :
        pc[t] = "R235" /\ rc[t].asked /\ ~rc[t].dispose /\ hp[cur[t]].Handle # EmptyRef

\* The handles the host holds whose reference is to value v.
HoldersOf(v) == {h \in HandleIds : hp[h].mem = "alloc" /\ hp[h].known /\ Tracked(h) = v}

InPool(p, h) == \E i \in 1 .. Len(p) : p[i] = h

C12_DetachedReleased ==
    engine = "live" =>
        \A h \in HandleIds :
            (hp[h].mem = "alloc" /\ hp[h].Disposed = 2) => hp[h].Handle = EmptyRef

\* C13: on a live engine a Dispose of a handle that is already Detached
\* returns false in one step and changes no handle, no cell and not the
\* free pool.
C13_SecondDisposeNoOp ==
    [][\A t \in Threads :
          (/\ engine = "live"
           /\ pc[t] = "D28"
           /\ stack[t] = <<"Dispose">>
           /\ hp[cur[t]].Disposed = 2
           /\ pc'[t] # "D28") =>
              /\ pc'[t] = "idle"
              /\ ret' = "false"
              /\ hp' = hp
              /\ pool' = pool
              /\ cells' = cells
              /\ fault' = "none"
      ]_vars

\* C13 happens: a second Dispose is under way on a handle the first one
\* detached and queued.
C13_Witness ==
    \E t \in Threads :
        /\ engine = "live"
        /\ pc[t] = "D28"
        /\ stack[t] = <<"Dispose">>
        /\ hp[cur[t]].Disposed = 2
        /\ InPool(pool, cur[t])

\* C14: a step that weakens a handle's reference only marks the cell weak
\* and registers the handle with it; a step that makes it strong again
\* leaves the cell as an acquisition makes it (same value, strong, nothing
\* registered) and changes no handle; a strong cell has no handle registered,
\* so the revival callback cannot run for it.
C14_WeakStrongRoundTrip ==
    [][/\ \A c \in CellIds :
             (pc' = pc /\ cells[c] # FreeCell /\ cells'[c] # FreeCell) =>
                 /\ (~cells[c].weak /\ cells'[c].weak) =>
                       /\ hp' = hp
                       /\ \E h \in HandleIds :
                             /\ hp[h].Handle = c
                             /\ cells' = [cells EXCEPT ![c].weak = TRUE, ![c].param = h]
                 /\ (cells[c].weak /\ ~cells'[c].weak) =>
                       /\ hp' = hp
                       /\ cells' = [cells EXCEPT ![c].weak = FALSE, ![c].param = NoHandle]
       /\ \A c \in CellIds :
             (cells'[c] # FreeCell /\ ~cells'[c].weak) =>
                 (cells'[c].param = NoHandle /\ ~Reclaimable(c)')
      ]_vars

\* C14 happens: an Active handle was made weak, no callback has started for
\* it, and the host is free to make it strong again.
C14_Witness ==
    \E h \in HandleIds :
        /\ engine = "live"
        /\ fault = "none"
        /\ hp[h].mem = "alloc"
        /\ hp[h].known
        /\ hp[h].Disposed = 0
        /\ hp[h].Handle # EmptyRef
        /\ cells[hp[h].Handle].weak
        /\ cells[hp[h].Handle].param = h
        /\ ~cells[hp[h].Handle].pending
        /\ \E t \in Threads : pc[t] = "idle"
        /\ calls < MaxCalls

\* C15: of two calls of GetManagedObjectID in a row, the second returns what
\* the first returned, inspects neither an internal field nor the hidden
\* marker, and finds an id other than -1 cached.
C15_SecondCallCached ==
    [][(last.op = "GetManagedObjectID" /\ last'.op = "GetManagedObjectID") =>
          /\ last'.result = last.result
          /\ ~last'.inspected
          /\ ObjectID # -1
      ]_ovars

\* C16 as stated: an unresolved handle of an object whose field 1 yields no
\* id (fewer than two internal fields, or field 1 no External) and whose
\* hidden marker holds the integer n resolves to n.
C16_HiddenMarkerFallback ==
    [][(/\ last'.op = "GetManagedObjectID"
        /\ ObjectID = -1
        /\ object.isObject
        /\ (object.fields < 2 \/ ~object.f1ext)
        /\ object.hiddenInt) => last'.result = object.hidden
      ]_ovars

\* C16, amended: an unresolved handle of an object with fewer than two
\* internal fields whose hidden marker holds the integer n resolves to n.
C16_HiddenMarkerWithoutFields ==
    [][(/\ last'.op = "GetManagedObjectID"
        /\ ObjectID = -1
        /\ object.isObject
        /\ object.fields < 2
        /\ object.hiddenInt) => (last'.result = object.hidden /\ ObjectID' = object.hidden)
      ]_ovars

\* C16 happens: the id of an object without internal fields was just
\* resolved from its hidden marker.
C16_Witness ==
    /\ last.op = "GetManagedObjectID"
    /\ last.inspected
    /\ object.isObject
    /\ object.fields < 2
    /\ object.hiddenInt
    /\ object.hidden >= 0
    /\ last.result = object.hidden
    /\ ObjectID = object.hidden

\* C17: while the handle stays in use, an id >= 0 is not replaced.
C17_ResolvedIdKept ==
    [][(holds /\ holds' /\ ObjectID >= 0) => ObjectID' = ObjectID]_ovars

\* C18: an interceptor called on a holder that has fewer than two internal
\* fields, or whose field 0 is undefined, null or no ObjectTemplateProxy,
\* invokes no host handler, acquires no string and no handle, and returns
\* the empty handle.
C18_DeclinesForeignHolder ==
    (/\ last.op \in Interceptors
     /\ \/ object.fields < 2
        \/ object.f0 = "undefined"
        \/ object.f0 = "null"
        \/ object.f0 # "ObjectTemplateProxyClass") =>
        /\ ~last.invoked
        /\ ~last.strings
        /\ ~last.handles
        /\ last.out = Empty

\* C18 happens: a named setter interceptor declined a holder whose field 0
\* points to a function template's proxy.
C18_Witness ==
    /\ last.op = "SetProperty"
    /\ last.named
    /\ object.fields = 2
    /\ object.f0 = "FunctionTemplateProxyClass"
    /\ object.f1ext
    /\ last.out = Empty

\* C19: a getter or setter interceptor whose handler was invoked returns the
\* engine value of the handle the handler returned, and the empty handle
\* when the handler returned nullptr; it throws nothing.
C19_ReturnsHandlersValue ==
    (last.op \in {"GetProperty", "SetProperty"} /\ last.invoked) =>
        /\ last.answer # "null" => last.out = ValueHandle(last.answer)
        /\ last.answer = "null" => last.out = Empty
        /\ ~last.threw

\* C19 happens: the handler of an indexed getter returned a handle, and the
\* interceptor returned its value.
C19_Witness ==
    /\ last.op = "GetProperty"
    /\ ~last.named
    /\ last.invoked
    /\ last.answer = "obj"
    /\ last.out.kind = "value"

\* C20: a query or delete interceptor whose handler returned r returns the
\* empty handle for r < 0; for r >= 0 the query returns the integer r and
\* the delete returns false for r = 0 and true for r > 0.
C20_ReturnsHandlersCode ==
    (last.op \in {"GetPropertyAttributes", "DeleteProperty"} /\ last.invoked) =>
        /\ last.code < 0 => last.out = Empty
        /\ (last.code >= 0 /\ last.op = "GetPropertyAttributes") =>
               last.out = IntegerHandle(last.code)
        /\ (last.code >= 0 /\ last.op = "DeleteProperty") =>
               last.out = BooleanHandle(last.code > 0)

\* C20 happens: the deleter's handler returned 0 and the interceptor
\* returned false.
C20_Witness ==
    /\ last.op = "DeleteProperty"
    /\ last.invoked
    /\ last.code = 0
    /\ last.out = BooleanHandle(FALSE)

\* The places of event x in the sequence e.
Places(e, x) == {i \in 1 .. Len(e) : e[i] = x}

C26_InstanceResolved ==
    [][(last.op = "CreateInstance" /\ last'.op = "GetManagedObjectID") =>
          /\ object = Instantiated(last.passed)
          /\ ObjectID = last.passed
          /\ last'.result = last.passed
          /\ ~last'.inspected
      ]_ovars

\* C26, amended: the same, but the call that follows inspects nothing only
\* for an id other than -1.
C26_InstanceResolvedUnlessNone ==
    [][(last.op = "CreateInstance" /\ last'.op = "GetManagedObjectID") =>
          /\ object.isObject
          /\ object.fields = 2
          /\ object.f0 = "FunctionTemplateProxyClass"
          /\ object.f1ext
          /\ object.f1 = last.passed
          /\ object.hiddenInt
          /\ object.hidden = last.passed
          /\ ObjectID = last.passed
          /\ last'.result = last.passed
          /\ last.passed # -1 => ~last'.inspected
      ]_ovars

\* C26 happens: an instance was created for id 1 and the id was then asked
\* for.
C26_Witness ==
    /\ last.op = "GetManagedObjectID"
    /\ ~last.inspected
    /\ last.result = 1
    /\ object = Instantiated(1)
    /\ ObjectID = 1

C21_HandlersAllOrNothing ==
    /\ otp.alive => \A kind \in Kinds : otp.installed[kind] => otp.handlers[kind] = HandlerNames
    /\ ~tlast.nullCall

\* C28: a template's destructor releases the persistent template exactly
\* when the engine is not disposed, and enters no scope of a disposed engine.
C28_DestructorGuarded ==
    [][(tlast' # tlast /\ tlast'.op \in {"~ObjectTemplateProxy", "~FunctionTemplateProxy"}) =>
          /\ tlast'.released <=> engine = "live"
          /\ engine # "live" => ~tlast'.scopes
      ]_tvars

\* C28 happens: the function template was destroyed after the engine was
\* torn down, and its template was not released.
C28_Witness ==
    /\ engine = "gone"
    /\ tlast.op = "~FunctionTemplateProxy"
    /\ ~ftp.alive
    /\ ~tlast.released
    /\ ~tlast.scopes

\* C23: an invocation of a template's function with a callback registered
\* calls the callback once, with the engine's construct-call flag, a handle
\* for the holder as this, and for each argument, in order, a handle that
\* tracks it; with no callback the host is not called and nothing is
\* returned.
C23_InvocationForwarded ==
    clast.op = "InvocationCallbackProxy" =>
        IF clast.registered
        THEN /\ clast.hostCalls = 1
             /\ clast.isConstruct = clast.inConstruct
             /\ clast.this.tracks = clast.holder
             /\ Len(clast.args) = Len(clast.given)
             /\ \A i \in 1 .. Len(clast.given) : clast.args[i].tracks = clast.given[i]
        ELSE /\ clast.hostCalls = 0
             /\ clast.out = Undefined

\* C23 happens: a constructor call with two different arguments, on a holder
\* that is not the receiver, reached the callback.
C23_Witness ==
    /\ clast.op = "InvocationCallbackProxy"
    /\ clast.registered
    /\ clast.inConstruct
    /\ clast.holder # clast.receiver
    /\ Len(clast.given) = 2
    /\ clast.given[1] # clast.given[2]

\* C24: a non-null result of an error kind is thrown with the value's
\* string form and not returned; a non-null result of another kind is
\* returned; a null result gives nothing.
C24_ErrorResultThrown ==
    (clast.op = "InvocationCallbackProxy" /\ clast.hostCalls = 1) =>
        /\ (~clast.result.null /\ clast.result.type < 0) =>
               /\ clast.out.kind = "thrown"
               /\ clast.out.msg = StringOf(clast.result.value)
               /\ clast.out.val = "none"
        /\ (~clast.result.null /\ clast.result.type >= 0) =>
               clast.out = Returns(clast.result.value)
        /\ clast.result.null => clast.out = Undefined

\* C24 happens: the callback returned a handle of the execution-error kind
\* and the invocation threw.
C24_Witness ==
    /\ clast.op = "InvocationCallbackProxy"
    /\ clast.hostCalls = 1
    /\ ~clast.result.null
    /\ clast.result.type = JSV_ExecutionError
    /\ clast.out.kind = "thrown"

\* C25: no argument array is outstanding once the calls have returned.
C25_NoArrayOutstanding == arrays = 0

\* The kinds of reference that are objects.
ObjectKinds == {"object", "array", "function"}

\* C29: an export whose target's reference is empty or not of the kind it
\* works on throws the usage error, acquires no handle and writes nothing.
C29_UsageErrorLeavesState ==
    /\ (/\ clast.op \in PropertyExports
        /\ \/ clast.target = "empty"
           \/ (clast.op = "GetArrayLength" /\ clast.target # "array")
           \/ (clast.op # "GetArrayLength" /\ clast.target \notin ObjectKinds)) =>
           (clast.threw # "none" /\ ~clast.called /\ ~clast.acquired /\ ~clast.wrote)
    /\ (/\ clast.op = "Call"
        /\ \/ clast.target \notin ObjectKinds
           \/ (clast.named /\ clast.subject \notin ObjectKinds)
           \/ (~clast.named /\ clast.subject # "function")) =>
           (clast.threw # "none" /\ ~clast.called /\ ~clast.acquired /\ ~clast.wrote)

\* C29 happens: SetObjectPropertyByName on a handle whose reference is an
\* integer threw.
C29_Witness ==
    /\ clast.op = "SetObjectPropertyByName"
    /\ clast.target = "int"
    /\ clast.threw = "usage error"
    /\ ~clast.wrote

\* C30: a Call of a function that throws returns a handle, not null.
C30_ThrowingCallReturnsError ==
    (clast.op = "Call" /\ clast.called /\ clast.behaviour = "throws") =>
        clast.returned # "null"

\* The handles that are Active and track value v after acquisition.
ActiveOn(v) ==
    {h \in HandleIds : hp[h].mem = "alloc" /\ hp[h].known /\ hp[h].Disposed = 0 /\ Tracked(h) = v}

\* C31 as stated: a handle that tracks the integral result 3 has kind
\* Number.
C31_IntegralTaggedNumber == \A h \in ActiveOn("int") : hp[h].Type = JSV_Number

\* C31: a handle that tracks the integral result 3 has kind Int32, and an
\* update of its Value Box leaves 3 in it.
C31_IntegralTaggedInt32 ==
    [][\A h \in HandleIds :
          (h \in ActiveOn("int")' /\ engine' = "live") =>
              /\ hp'[h].Type = JSV_Int32
              /\ hp'[h].Value # hp[h].Value => hp'[h].Value = [num |-> 3, str |-> FALSE]]_vars

\* C31 happens: a handle for the result 3 was acquired and its Value Box
\* updated.
C31_Witness ==
    \E h \in ActiveOn("int") :
        /\ engine = "live"
        /\ hp[h].Type = JSV_Int32
        /\ hp[h].Value.num = 3

\* C32: an export called with a null handle pointer calls no method of a
\* handle and changes no state; GetHandleManagedObjectID returns -1.
C32_NullPointerNoOp ==
    [][last'.null =>
          /\ ~last'.ran
          /\ UNCHANGED <<object, holds, ObjectID>>
          /\ UNCHANGED <<vars, tvars, cvars>>
          /\ last'.op = "GetHandleManagedObjectID" => last'.result = -1]_<<ovars, vars>>

\* C32 happens: DisposeHandleProxy was called with a null pointer while a
\* handle with a resolved id was in use.
C32_Witness ==
    /\ last.op = "DisposeHandleProxy"
    /\ last.null
    /\ holds
    /\ ObjectID >= 0

\* What an interceptor decided: whether it called the handler, with which
\* id, what the handler returned and what the engine got.
Decision(l) ==
    [invoked |-> l.invoked, passed |-> l.passed, answer |-> l.answer, code |-> l.code,
     out |-> l.out]

C35_DocumentedEncoding ==
    \A h \in HandleIds :
        (hp[h].mem = "alloc" /\ hp[h].known) => hp[h].Disposed \in {0, 1, 3}

\* The persistent references that are live.
LiveCells == {c \in CellIds : cells[c] # FreeCell}

\* C36: no more persistent references are live than there are handle
\* records, and every live reference is the reference of exactly one handle.
C36_OneReferencePerHandle ==
    /\ Cardinality(LiveCells) <= nHandles
    /\ \A c \in LiveCells :
           Cardinality({h \in HandleIds : hp[h].mem = "alloc" /\ hp[h].Handle = c}) = 1

\* C36 happens: a slot whose earlier value was the integer 3 was acquired
\* again for the object and holds one live reference.
C36_Witness ==
    \E h \in HandleIds :
        /\ got = h
        /\ hp[h].Disposed = 0
        /\ hp[h].Value.num = 3
        /\ Tracked(h) = "obj"
        /\ hp[h].Handle \in LiveCells

\* C37: when Initialize(v) completes, whatever the slot's state was before,
\* the handle is Active, its host id is -1, its Value Box holds no string,
\* its reference tracks v and is strong, and its kind is the kind of v.
C37_RecycledSlotClean ==
    [][\A t \in Threads :
          (pc[t] = "Init62" /\ pc'[t] = "idle") =>
              LET h == cur[t]
              IN  /\ hp'[h].Disposed = 0
                  /\ hp'[h].ManagedObjectID = -1
                  /\ ~hp'[h].Value.str
                  /\ hp'[h].Handle # EmptyRef
                  /\ cells'[hp'[h].Handle].val = acq
                  /\ ~cells'[hp'[h].Handle].weak
                  /\ hp'[h].Type = TypeOf(acq)]_vars

\* C38: the last step of the revival callback releases no reference but the
\* weak one the collector called it for; a reference the slot was given
\* since is not that one.
C38_ReleasesOnlyWeakened ==
    [][\A t \in Threads :
          (pc[t] = "R235" /\ pc'[t] = "idle") =>
              \A c \in CellIds :
                  (cells[c] # FreeCell /\ cells'[c] = FreeCell) =>
                      (c = rc[t].cell /\ cells[c].pending)]_vars

\* C39: a handle in use whose cached host id is resolved holds an object
\* whose hidden marker is that id and, when the object has two internal
\* fields, whose field 1 is that id.
C39_IdentityRecordsAgree ==
    (holds /\ ObjectID >= 0 /\ object.isObject) =>
        /\ object.hiddenInt
        /\ object.hidden = ObjectID
        /\ object.fields > 1 => (object.f1ext /\ object.f1 = ObjectID)

\* C40: a named property read on an object as CreateInstance made it is
\* forwarded to the named getter with the instance's host id.
C40_InstanceIntercepted ==
    (/\ last.op = "GetProperty"
     /\ last.named
     /\ \E m \in IdValues : object = Instantiated(m)) =>
        /\ last.invoked
        /\ last.passed = object.f1

====
